---------------------------- MODULE Spec2Model ----------------------------
(***************************************************************************)
(* A model of src/src/main.ts: the BVH-to-texture encoder bvhToTextures,   *)
(* the part of run() that calls it, and the frame loop render() with its   *)
(* timestamp readback.                                                     *)
(*                                                                         *)
(* A 32-bit word of a typed array is a record [hi, lo] of its two 16-bit   *)
(* halves, so that the Uint16Array, Uint32Array and Float32Array views of  *)
(* one ArrayBuffer are modelled by what they read (little-endian), and a   *)
(* value such as 0xFFFF0000 keeps its full width.  A Float32 is the word   *)
(* of its bit pattern.                                                     *)
(***************************************************************************)
EXTENDS Integers, Sequences, FiniteSets, TLC

----------------------------------------------------------------------------
(* Bounds of the model *)

\* the largest source tree has this many leaves (2 * MaxLeaves - 1 nodes)
MaxLeaves == 3

\* the largest target frame count tried
MaxTargetFrames == 2

----------------------------------------------------------------------------
(* Build constants and the values the configuration constants range over *)

BYTES_PER_NODE == 6 * 4 + 4 + 4

IS_LEAFNODE_FLAG == 65535

HalfWord == 2 ^ 16

\* kTextureWidth (1024 in the source) and a small size
ImageWidths == {4, 1024}

\* maxWorkgroupDimension (16 in the source) and its double
WorkgroupDims == {16, 32}

\* TARGET_FRAMES (0 in the source)
TargetFrames == 0..MaxTargetFrames

\* triangle counts of a leaf: the smallest and the largest a Uint16 holds
LeafCounts == {1, 65535}

----------------------------------------------------------------------------
(* 32-bit words *)

Word(h, l) == [hi |-> h, lo |-> l]

Zero == Word(0, 0)

\* what a Float32Array yields for undefined (an out-of-range read): NaN
NaNBits == Word(32704, 0)

\* a Uint32Array element as a JS number; defined for values below 2^31
ToNumber(w) == w.hi * HalfWord + w.lo

\* ToUint32 of a non-negative number, as stored into a Uint32Array
FromNumber(n) == Word((n \div HalfWord) % HalfWord, n % HalfWord)

RECURSIVE BitOr(_, _, _)
BitOr(a, b, n) ==
  IF n = 0 THEN 0
  ELSE (IF a % 2 = 1 \/ b % 2 = 1 THEN 1 ELSE 0)
       + 2 * BitOr(a \div 2, b \div 2, n - 1)

RECURSIVE BitAnd(_, _, _)
BitAnd(a, b, n) ==
  IF n = 0 THEN 0
  ELSE (IF a % 2 = 1 /\ b % 2 = 1 THEN 1 ELSE 0)
       + 2 * BitAnd(a \div 2, b \div 2, n - 1)

\* x | y and x & y on 32-bit words
Or32(x, y) == Word(BitOr(x.hi, y.hi, 16), BitOr(x.lo, y.lo, 16))

And32(x, y) == Word(BitAnd(x.hi, y.hi, 16), BitAnd(x.lo, y.lo, 16))

\* 0xffff0000
LeafSentinel == Word(IS_LEAFNODE_FLAG, 0)

----------------------------------------------------------------------------
(* The source BVH: what new MeshBVH(geometry, {indirect: true}) hands to   *)
(* bvhToTextures.  A tree is a function from node index (pre-order) to the *)
(* node; its node buffer is laid out as the accessors of main.ts read it.  *)

\* pre-order sequences of subtree sizes of the full binary trees with l leaves
RECURSIVE Shapes(_)
Shapes(l) ==
  IF l = 1 THEN {<<1>>}
  ELSE UNION {{<<2 * l - 1>> \o a \o b : a \in Shapes(k), b \in Shapes(l - k)} :
              k \in 1..(l - 1)}

LeafIndices(sz) == {j \in 0..(Len(sz) - 1) : sz[j + 1] = 1}

RECURSIVE SumCounts(_, _)
SumCounts(cnt, js) ==
  IF js = {} THEN 0
  ELSE LET j == CHOOSE x \in js : TRUE IN cnt[j] + SumCounts(cnt, js \ {j})

\* the bit pattern of component c of node j's bounding box
BoundsBits(j, c) == Word(16256 + j, c + 1)

MkTree(sz, cnt, ax) ==
  [j \in 0..(Len(sz) - 1) |->
     IF sz[j + 1] = 1
     THEN [leaf |-> TRUE, count |-> cnt[j],
           offset |-> SumCounts(cnt, {x \in LeafIndices(sz) : x < j}),
           axis |-> 0, right |-> 0,
           bounds |-> [c \in 0..5 |-> BoundsBits(j, c)]]
     ELSE [leaf |-> FALSE, count |-> 0, offset |-> 0,
           axis |-> (ax + j) % 3, right |-> j + 1 + sz[j + 2],
           bounds |-> [c \in 0..5 |-> BoundsBits(j, c)]]]

EmptyTree == [j \in {} |-> Zero]

NodesOf(tree) == Cardinality(DOMAIN tree)

Trees(l) ==
  UNION {{MkTree(sz, cnt, ax) : cnt \in [LeafIndices(sz) -> LeafCounts], ax \in 0..2} :
         sz \in Shapes(l)}

AllTrees == UNION {Trees(l) : l \in 1..MaxLeaves}

\* the ArrayBuffer of a root, as its Uint32 words: 8 per node
NodeBuffer(tree) ==
  [k \in 0..(8 * NodesOf(tree) - 1) |->
     LET n == tree[k \div 8]
         f == k % 8
     IN IF f < 6 THEN n.bounds[f]
        ELSE IF f = 6
             THEN (IF n.leaf THEN FromNumber(n.offset) ELSE FromNumber(8 * n.right))
             ELSE (IF n.leaf THEN Word(IS_LEAFNODE_FLAG, n.count) ELSE Word(0, n.axis))]

\* bvh._roots for a sequence of source trees
RootsOf(trees) == [r \in 1..Len(trees) |-> NodeBuffer(trees[r])]

\* no root, one root (the empty buffer included), two roots
SourceBVHs ==
  {<< >>} \cup {<<t>> : t \in AllTrees \cup {EmptyTree}}
          \cup {<<t, t>> : t \in Trees(1)}

byteLength(root) == 4 * Cardinality(DOMAIN root)

----------------------------------------------------------------------------
(* Typed-array views of a root buffer and the node accessors *)

Uint32At(root, k) == IF k \in DOMAIN root THEN root[k] ELSE Zero

Float32At(root, k) == IF k \in DOMAIN root THEN root[k] ELSE NaNBits

Uint16At(root, k) ==
  IF (k \div 2) \in DOMAIN root
  THEN (IF k % 2 = 0 THEN root[k \div 2].lo ELSE root[k \div 2].hi)
  ELSE 0

isLeaf(n16, root) == Uint16At(root, n16 + 15) = IS_LEAFNODE_FLAG

getAtOffset(n32, root) == Uint32At(root, n32 + 6)

\* a variant that reads the flag half-word instead of the count
getCountWrongHalf(n16, root) == Uint16At(root, n16 + 15)


getCount(n16, root) == Uint16At(root, n16 + 14)

getRightNode(n32, root) == Uint32At(root, n32 + 6)

getSplitAxis(n32, root) == Uint32At(root, n32 + 7)

getBoundingDataIndex(n32) == n32

----------------------------------------------------------------------------
(* State *)

VARIABLES
  source,                \* the source trees, one per root (what the buffers encode)
  roots,                 \* bvh._roots: the node buffers
  imageWidth, imageHeight, maxWorkgroupDimension, TARGET_FRAMES,
  pc,                    \* where run() is: "init", "encoding", "aborted", "frames"
  nodeCount, boundsDimension, contentsDimension,
  boundsArray, contentsArray,
  i,                     \* the loop variable of bvhToTextures
  computePasses,
  frame,
  rafScheduled,          \* a requestAnimationFrame(render) callback is waiting
  mapState,              \* timestampQueryResultBuffer.mapState
  submitted,             \* command buffers handed to device.queue.submit
  timeLogs,              \* "GPU Time" lines logged
  renderRejected,        \* a render() promise was rejected
  lastFrame              \* what the latest render() call encoded and requested

vars == <<source, roots, imageWidth, imageHeight, maxWorkgroupDimension,
          TARGET_FRAMES, pc, nodeCount, boundsDimension, contentsDimension,
          boundsArray, contentsArray, i, computePasses, frame, rafScheduled,
          mapState, submitted, timeLogs, renderRejected, lastFrame>>

inputVars == <<source, roots, imageWidth, imageHeight, maxWorkgroupDimension,
               TARGET_FRAMES>>

encoderVars == <<nodeCount, boundsDimension, contentsDimension, boundsArray,
                 contentsArray, i>>

frameVars == <<computePasses, frame, rafScheduled, mapState, submitted,
               timeLogs, renderRejected, lastFrame>>

NoFrame == [copied |-> FALSE, mapRequested |-> FALSE, stateAtMap |-> "unmapped",
            side |-> 0, sideIsInteger |-> TRUE]

Init ==
  /\ source \in SourceBVHs
  /\ roots = RootsOf(source)
  /\ imageWidth \in ImageWidths
  /\ imageHeight = imageWidth
  /\ maxWorkgroupDimension \in WorkgroupDims
  /\ TARGET_FRAMES \in TargetFrames
  /\ pc = "init"
  /\ nodeCount = 0
  /\ boundsDimension = 0
  /\ contentsDimension = 0
  /\ boundsArray = << >>
  /\ contentsArray = << >>
  /\ i = 0
  /\ computePasses = 0
  /\ frame = 0
  /\ rafScheduled = FALSE
  /\ mapState = "unmapped"
  /\ submitted = 0
  /\ timeLogs = 0
  /\ renderRejected = FALSE
  /\ lastFrame = NoFrame

----------------------------------------------------------------------------
(* bvhToTextures *)

\* Math.ceil(Math.sqrt(num / den)): the least d with d * d >= num / den
CeilSqrt(num, den) ==
  CHOOSE d \in 0..num :
    /\ d * d * den >= num
    /\ d = 0 \/ (d - 1) * (d - 1) * den < num

\* a typed array of len zeros
NewArray(len) == [k \in 0..(len - 1) |-> Zero]

ArrayLength(arr) == Cardinality(DOMAIN arr)

\* arr[k] = v on a typed array: a write past the end is dropped
Store(arr, k, v) == IF k \in DOMAIN arr THEN [arr EXCEPT ![k] = v] ELSE arr

\* a variant that rejects only a BVH without roots
UnsupportedRootsOnlyEmpty(r) == Len(r) = 0


UnsupportedRoots(r) == Len(r) # 1

NodeCountOf(root) == byteLength(root) \div BYTES_PER_NODE

\* a variant that forgets to double the height
BoundsDimensionNotDoubled(n) == CeilSqrt(n, 2)


BoundsDimensionOf(n) == 2 * CeilSqrt(n, 2)

ContentsDimensionOf(n) == CeilSqrt(n, 1)

\* the inner loop over b: min xyz to 8i+0..2, max xyz to 8i+4..6
WriteBounds(arr, root, idx, boundsIndex) ==
  LET s0 == Store(arr, 8 * idx + 0 + 0, Float32At(root, boundsIndex + 0 + 0))
      s1 == Store(s0, 8 * idx + 4 + 0, Float32At(root, boundsIndex + 3 + 0))
      s2 == Store(s1, 8 * idx + 0 + 1, Float32At(root, boundsIndex + 0 + 1))
      s3 == Store(s2, 8 * idx + 4 + 1, Float32At(root, boundsIndex + 3 + 1))
      s4 == Store(s3, 8 * idx + 0 + 2, Float32At(root, boundsIndex + 0 + 2))
  IN Store(s4, 8 * idx + 4 + 2, Float32At(root, boundsIndex + 3 + 2))

\* a variant that tags the low half: 0xffff | count
MergedLeafCountLowHalf(count) == Or32(Word(0, IS_LEAFNODE_FLAG), Word(0, count))

\* 0xffff0000 | count, on the bits
MergedLeafCount(count) == Or32(LeafSentinel, Word(0, count))

\* a variant that takes the stored word index for a byte offset
RightByteOffsetUnscaled(n32, root) == ToNumber(getRightNode(n32, root))

\* the dividend of rightIndex: 4 * getRightNode(nodeIndex32, uint32Array)
RightByteOffset(n32, root) == 4 * ToNumber(getRightNode(n32, root))

\* the pair written to contentsArray[2i], contentsArray[2i + 1]
ContentsOf(n16, n32, root) ==
  IF isLeaf(n16, root)
  THEN <<MergedLeafCount(getCount(n16, root)), getAtOffset(n32, root)>>
  ELSE <<getSplitAxis(n32, root),
         FromNumber(RightByteOffset(n32, root) \div BYTES_PER_NODE)>>

WriteContents(arr, idx, pair) ==
  Store(Store(arr, idx * 2 + 0, pair[1]), idx * 2 + 1, pair[2])

\* roots.length !== 1: the throw leaves bvhToTextures and run()
ThrowMultiRoot ==
  /\ pc = "init"
  /\ UnsupportedRoots(roots)
  /\ pc' = "aborted"
  /\ UNCHANGED <<inputVars, encoderVars, frameVars>>

\* the views, the dimensions and the two zero-filled arrays
AllocateArrays ==
  /\ pc = "init"
  /\ ~UnsupportedRoots(roots)
  /\ nodeCount' = NodeCountOf(roots[1])
  /\ boundsDimension' = BoundsDimensionOf(nodeCount')
  /\ boundsArray' = NewArray(4 * boundsDimension' * boundsDimension')
  /\ contentsDimension' = ContentsDimensionOf(nodeCount')
  /\ contentsArray' = NewArray(2 * contentsDimension' * contentsDimension')
  /\ i' = 0
  /\ pc' = "encoding"
  /\ UNCHANGED <<inputVars, frameVars>>

\* one iteration of the for loop
EncodeNode ==
  /\ pc = "encoding"
  /\ i < nodeCount
  /\ LET nodeIndex32 == (i * BYTES_PER_NODE) \div 4
         nodeIndex16 == nodeIndex32 * 2
         boundsIndex == getBoundingDataIndex(nodeIndex32)
     IN /\ boundsArray' = WriteBounds(boundsArray, roots[1], i, boundsIndex)
        /\ contentsArray' =
             WriteContents(contentsArray, i,
                           ContentsOf(nodeIndex16, nodeIndex32, roots[1]))
  /\ i' = i + 1
  /\ UNCHANGED <<inputVars, pc, nodeCount, boundsDimension, contentsDimension,
                 frameVars>>

----------------------------------------------------------------------------
(* run() after bvhToTextures, and render() *)

\* Math.ceil((imageWidth * imageWidth) / maxWorkgroupDimension)
ComputePassesOf(w, g) == (w * w + g - 1) \div g

\* the integer part of Math.sqrt(n), which dispatchWorkgroups keeps
FloorSqrt(n) == CHOOSE s \in 0..n : s * s <= n /\ (s + 1) * (s + 1) > n

\* timestampQueryResultBuffer.mapState === "unmapped", before the copy
ShouldCopy(state) == state = "unmapped"

\* a variant that maps when the buffer is not unmapped
ShouldMapInverted(state) == state # "unmapped"

\* timestampQueryResultBuffer.mapState === "unmapped", before mapAsync
ShouldMap(state) == state = "unmapped"

\* a variant that tests frame <= TARGET_FRAMES
FramesRemainInclusive(f, target) == f <= target

\* if (frame < TARGET_FRAMES)
FramesRemain(f, target) == f < target

\* the loop is left; the arrays are returned, the buffers are filled,
\* computePasses is set and the first frame is requested
ReturnAndStart ==
  /\ pc = "encoding"
  /\ ~(i < nodeCount)
  /\ computePasses' = ComputePassesOf(imageWidth, maxWorkgroupDimension)
  /\ rafScheduled' = TRUE
  /\ pc' = "frames"
  /\ UNCHANGED <<inputVars, encoderVars, frame, mapState, submitted, timeLogs,
                 renderRejected, lastFrame>>

\* the lines of render() after the readback: schedule the next frame
ScheduleNext ==
  IF FramesRemain(frame, TARGET_FRAMES)
  THEN frame' = frame + 1 /\ rafScheduled' = TRUE
  ELSE frame' = frame /\ rafScheduled' = FALSE

\* the animation-frame callback: render() down to its await, or to its end
\* when no map is requested
Render ==
  /\ pc = "frames"
  /\ rafScheduled
  /\ lastFrame' = [copied |-> ShouldCopy(mapState),
                   mapRequested |-> ShouldMap(mapState),
                   stateAtMap |-> mapState,
                   side |-> FloorSqrt(computePasses),
                   sideIsInteger |->
                     FloorSqrt(computePasses) * FloorSqrt(computePasses)
                       = computePasses]
  /\ submitted' = submitted + 1
  /\ IF ShouldMap(mapState)
     THEN /\ mapState' = "pending"
          /\ rafScheduled' = FALSE
          /\ frame' = frame
     ELSE /\ mapState' = mapState
          /\ ScheduleNext
  /\ UNCHANGED <<inputVars, pc, encoderVars, computePasses, timeLogs,
                 renderRejected>>

\* mapAsync resolves: render() resumes, logs the GPU time, unmaps and goes on
MapResolved ==
  /\ pc = "frames"
  /\ mapState = "pending"
  /\ timeLogs' = timeLogs + 1
  /\ mapState' = "unmapped"
  /\ ScheduleNext
  /\ UNCHANGED <<inputVars, pc, encoderVars, computePasses, submitted,
                 renderRejected, lastFrame>>

\* mapAsync rejects: the await throws and the render() promise is rejected
MapRejected ==
  /\ pc = "frames"
  /\ mapState = "pending"
  /\ mapState' = "unmapped"
  /\ renderRejected' = TRUE
  /\ UNCHANGED <<inputVars, pc, encoderVars, computePasses, frame,
                 rafScheduled, submitted, timeLogs, lastFrame>>

Next ==
  \/ ThrowMultiRoot
  \/ AllocateArrays
  \/ EncodeNode
  \/ ReturnAndStart
  \/ Render
  \/ MapResolved
  \/ MapRejected

Spec == Init /\ [][Next]_vars

\* the browser runs a requested animation frame callback, a map request
\* settles, and the synchronous code of run() goes on: a step that can be
\* taken is taken
FairSpec == Spec /\ WF_vars(Next)

----------------------------------------------------------------------------
(* Properties *)

\* the one source tree of a single-root BVH
Src == source[1]

\* the nodes the loop has encoded so far
Encoded == 0..(i - 1)

InEncoder == pc \in {"encoding", "frames"}

\* C1: a BVH whose number of roots is not exactly 1 makes bvhToTextures throw
\* before any node record is read and before any array exists, and run() never
\* gets to request or submit a frame.
C1_MultiRootAborts ==
  Len(roots) # 1 =>
    /\ pc \in {"init", "aborted"}
    /\ i = 0
    /\ ArrayLength(boundsArray) = 0
    /\ ArrayLength(contentsArray) = 0
    /\ ~rafScheduled
    /\ submitted = 0

C1_Witness == pc = "aborted" /\ Len(roots) = 2

\* C2: for a single-root BVH with N nodes, contentsDimension^2 >= N and
\* boundsDimension^2 >= ceil(N/2); every write of node j < N falls inside the
\* allocated lengths 4 * boundsDimension^2 and 2 * contentsDimension^2; an
\* encoded node's min xyz is at 8j..8j+2 and its max xyz at 8j+4..8j+6 with a
\* zero fourth component; every slot beyond the encoded nodes is zero; and the
\* loop ends with exactly N nodes encoded.
C2_EncoderLayout ==
  InEncoder =>
    LET N == NodesOf(Src)
    IN /\ N * BYTES_PER_NODE = byteLength(roots[1])
       /\ nodeCount = N
       /\ contentsDimension * contentsDimension >= N
       /\ 2 * boundsDimension * boundsDimension >= N
       /\ ArrayLength(boundsArray) = 4 * boundsDimension * boundsDimension
       /\ ArrayLength(contentsArray) = 2 * contentsDimension * contentsDimension
       /\ \A j \in 0..(N - 1) :
            /\ 8 * j + 7 < ArrayLength(boundsArray)
            /\ 2 * j + 1 < ArrayLength(contentsArray)
       /\ \A j \in Encoded :
            /\ \A c \in 0..2 :
                 /\ boundsArray[8 * j + c] = Src[j].bounds[c]
                 /\ boundsArray[8 * j + 4 + c] = Src[j].bounds[3 + c]
            /\ boundsArray[8 * j + 3] = Zero
            /\ boundsArray[8 * j + 7] = Zero
       /\ \A k \in DOMAIN boundsArray : k >= 8 * i => boundsArray[k] = Zero
       /\ \A k \in DOMAIN contentsArray : k >= 2 * i => contentsArray[k] = Zero
       /\ pc = "frames" => i = N

C2_Witness ==
  /\ pc = "frames"
  /\ nodeCount = 5
  /\ ArrayLength(contentsArray) > 2 * nodeCount
  /\ ArrayLength(boundsArray) > 8 * nodeCount

\* C3: for every encoded node j, (contentsArray[2j] & 0xFFFF0000) equals
\* 0xFFFF0000 exactly when source node j is a leaf, that is when the 16-bit
\* word at offset 15 of its record is 0xFFFF; an internal node's first word is
\* its split axis.
C3_LeafDiscrimination ==
  InEncoder =>
    \A j \in Encoded :
      /\ Src[j].leaf <=> Uint16At(roots[1], 16 * j + 15) = IS_LEAFNODE_FLAG
      /\ (And32(contentsArray[2 * j], LeafSentinel) = LeafSentinel) <=> Src[j].leaf
      /\ ~Src[j].leaf => contentsArray[2 * j] = Word(0, Src[j].axis)

C3_Witness ==
  /\ pc = "frames"
  /\ \E j, k \in Encoded :
       /\ Src[j].leaf
       /\ ~Src[k].leaf
       /\ And32(contentsArray[2 * j], LeafSentinel) = LeafSentinel
       /\ And32(contentsArray[2 * k], LeafSentinel) # LeafSentinel

\* C4: for every encoded internal node j, contentsArray[2j+1] is the node
\* index of its right child: the child's byte offset divided by the 32-byte
\* stride with no remainder, greater than j, less than N, and not the implicit
\* left child j + 1.
C4_RightChildIndex ==
  InEncoder =>
    \A j \in Encoded :
      ~Src[j].leaf =>
        LET r == ToNumber(contentsArray[2 * j + 1])
        IN /\ r = Src[j].right
           /\ RightByteOffset(8 * j, roots[1]) % BYTES_PER_NODE = 0
           /\ r * BYTES_PER_NODE = 4 * ToNumber(roots[1][8 * j + 6])
           /\ r > j
           /\ r < nodeCount
           /\ r # j + 1

C4_Witness ==
  /\ pc = "frames"
  /\ \E j \in Encoded :
       /\ ~Src[j].leaf
       /\ ToNumber(contentsArray[2 * j + 1]) > j + 2

\* the low 16 bits of the sentinel-tagged entries, summed over all nodes
DecodedTriangles ==
  LET tagged == {j \in 0..(nodeCount - 1) :
                   And32(contentsArray[2 * j], LeafSentinel) = LeafSentinel}
  IN SumCounts([j \in tagged |-> contentsArray[2 * j].lo], tagged)

\* the triangles of the source geometry: the counts of the source leaves
SourceTriangles ==
  LET leaves == {j \in DOMAIN Src : Src[j].leaf}
  IN SumCounts([j \in leaves |-> Src[j].count], leaves)

\* C5: every encoded leaf j has contentsArray[2j] = 0xFFFF0000 | triangleCount
\* and contentsArray[2j+1] = triangleOffset, and once the encoder has returned
\* the low 16 bits of all leaf entries sum to the source's triangle count.
C5_LeafRoundTrip ==
  InEncoder =>
    /\ \A j \in Encoded :
         Src[j].leaf =>
           /\ contentsArray[2 * j] = Word(IS_LEAFNODE_FLAG, Src[j].count)
           /\ contentsArray[2 * j].lo = Src[j].count
           /\ contentsArray[2 * j + 1] = FromNumber(Src[j].offset)
    /\ pc = "frames" => DecodedTriangles = SourceTriangles

C5_Witness ==
  /\ pc = "frames"
  /\ \E j, k \in Encoded :
       /\ Src[j].leaf /\ Src[k].leaf
       /\ contentsArray[2 * j].lo = 1
       /\ contentsArray[2 * k].lo = 65535
       /\ contentsArray[2 * k + 1].hi > 0
  /\ DecodedTriangles > 65535

\* C6: for a single root whose node buffer is empty the encoder returns a
\* 1x1 minimum texture: both dimensions are at least 1 and the arrays are
\* allocated for that size.
C6_EmptyBufferMinimumTexture ==
  (InEncoder /\ nodeCount = 0) =>
    /\ contentsDimension >= 1
    /\ boundsDimension >= 1
    /\ ArrayLength(contentsArray) >= 2
    /\ ArrayLength(boundsArray) >= 4

\* C7: the side length handed to dispatchWorkgroups is an integer s with
\* s^2 * G >= W * H and (s - 1)^2 * G < W * H.
C7_DispatchCoversImage ==
  submitted > 0 =>
    /\ lastFrame.sideIsInteger
    /\ lastFrame.side * lastFrame.side * maxWorkgroupDimension
         >= imageWidth * imageHeight
    /\ (lastFrame.side - 1) * (lastFrame.side - 1) * maxWorkgroupDimension
         < imageWidth * imageHeight

\* C8: mapAsync is issued only on an unmapped buffer, the copy into the buffer
\* is encoded only when it is unmapped, a frame requests the map exactly when
\* it encoded the copy, and no frame is waiting to run while a map is pending
\* or the buffer is mapped.
C8_SingleSlotReadback ==
  /\ mapState \in {"unmapped", "pending"}
  /\ rafScheduled => mapState = "unmapped"
  /\ submitted > 0 =>
       /\ lastFrame.mapRequested => lastFrame.stateAtMap = "unmapped"
       /\ lastFrame.copied => lastFrame.stateAtMap = "unmapped"
       /\ lastFrame.mapRequested <=> lastFrame.copied
  /\ mapState = "pending" => lastFrame.mapRequested /\ lastFrame.copied

C8_Witness ==
  /\ submitted >= 2
  /\ mapState = "pending"
  /\ lastFrame.copied
  /\ lastFrame.mapRequested
  /\ timeLogs >= 1

\* C9: while a frame's map request is outstanding and frames remain, the next
\* frame is already scheduled: scheduling does not wait for the map to settle.
C9_ReadbackDoesNotBlockNextFrame ==
  (mapState = "pending" /\ FramesRemain(frame, TARGET_FRAMES)) => rafScheduled

\* C10: a rejected map request skips only that frame's log: when the loop has
\* come to rest (no frame scheduled, no map outstanding) the frame counter has
\* reached the target frame count.
C10_RejectedMapKeepsRendering ==
  (pc = "frames" /\ ~rafScheduled /\ mapState # "pending") =>
    ~FramesRemain(frame, TARGET_FRAMES)

\* no frame is waiting to run and no render() is suspended at its await
LoopAtRest == ~rafScheduled /\ mapState # "pending"

\* C11 as stated: the frames submitted over a run number at most TARGET_FRAMES.
C11_AtMostTargetFrames == submitted <= TARGET_FRAMES

\* C11, amended: the frame counter never exceeds TARGET_FRAMES and at most
\* TARGET_FRAMES + 1 frames are submitted (frame 0 is submitted before the
\* counter is tested); once that many are submitted no frame is scheduled any
\* more; and, every map request settling, a started frame loop reaches a
\* state with no frame scheduled and no map outstanding.
C11_FrameLoopBounded ==
  /\ [](/\ frame <= TARGET_FRAMES
        /\ submitted <= TARGET_FRAMES + 1
        /\ submitted <= frame + 1
        /\ submitted = TARGET_FRAMES + 1 => ~rafScheduled)
  /\ [][submitted = TARGET_FRAMES + 1 => submitted' = submitted]_vars
  /\ (pc = "frames") ~> LoopAtRest

C11_Witness ==
  /\ pc = "frames"
  /\ TARGET_FRAMES >= 2
  /\ submitted = TARGET_FRAMES + 1
  /\ frame = TARGET_FRAMES
  /\ timeLogs = submitted
  /\ LoopAtRest

=============================================================================
